---- MODULE Spec2Model ----
(***************************************************************************)
(* LimitedCache of src/tts/tts.py: an OrderedDict-backed LRU cache with an *)
(* item limit and an approximate byte limit.  The OrderedDict is a         *)
(* sequence of [key, value] entries, oldest first.                         *)
(***************************************************************************)
EXTENDS Integers, Sequences, FiniteSets, TLC

VARIABLES max_items, max_memory_bytes, cache, current_memory, ret, recency, ref, hist,
          loop, callers

vars == <<max_items, max_memory_bytes, cache, current_memory, ret, recency, ref, hist,
          loop, callers>>

\* The observers of whole calls.
observers == <<ret, recency, ref, hist>>

\* loop: a put that is followed statement by statement; callers: the
\* play_audio calls in progress.  Neither is used while calls are taken whole.
stepwise == <<loop, callers>>

(* ------------------------------------------------------------------ *)
(* Inputs                                                             *)
(* ------------------------------------------------------------------ *)

\* Longest call history that is tracked call by call.
MaxHist == 4

Keys == {"a", "b", "c"}

\* A Python value, as far as _get_size looks at it: its type, its length
\* (bytes: len(); tuple: number of elements), the nbytes attribute of the
\* first tuple element (-1: no such attribute) and sys.getsizeof of what
\* the generic branch measures.
B100 == [shape |-> "bytes", len |-> 100, nbytes |-> -1, sizeof |-> 133]
B200 == [shape |-> "bytes", len |-> 200, nbytes |-> -1, sizeof |-> 233]
None == [shape |-> "NoneType", len |-> 0, nbytes |-> -1, sizeof |-> 16]
Pair == [shape |-> "tuple", len |-> 2, nbytes |-> 120, sizeof |-> 232]
Triple == [shape |-> "tuple", len |-> 3, nbytes |-> 120, sizeof |-> 232]

Values == {B100, B200, None, Pair, Triple}

\* LimitedCache(max_items, max_memory_mb): the limits a caller may pass.
\* 50 items and 50 MB are the limits of _samples_cache.
ItemLimits == {0, 1, 2, 100}
ByteLimits == {50, 250, 50 * 1024 * 1024}

(* ------------------------------------------------------------------ *)
(* OrderedDict primitives                                             *)
(* ------------------------------------------------------------------ *)

KeysOf(c) == {c[i].key : i \in 1..Len(c)}

\* key in self.cache
contains(c, key) == \E i \in 1..Len(c) : c[i].key = key

\* self.cache[key]
Lookup(c, key) == (CHOOSE i \in 1..Len(c) : c[i].key = key)

ValueOf(c, key) == c[Lookup(c, key)].value

\* del self.cache[key]
Delete(c, key) == SelectSeq(c, LAMBDA e : e.key # key)

move_to_front(c, key) == <<c[Lookup(c, key)]>> \o Delete(c, key)

\* self.cache.move_to_end(key)
move_to_end(c, key) == Delete(c, key) \o <<c[Lookup(c, key)]>>

popitem_last(c) == [item |-> c[Len(c)], rest |-> SubSeq(c, 1, Len(c) - 1)]

\* self.cache.popitem(last=False)
popitem(c) == [item |-> Head(c), rest |-> Tail(c)]

(* ------------------------------------------------------------------ *)
(* _get_size                                                          *)
(* ------------------------------------------------------------------ *)

\* samples, _ = value raises ValueError unless the tuple has two elements
unpack_raises(value) == value.shape = "tuple" /\ value.len # 2

get_size(value) ==
    IF value.shape = "bytes" THEN value.len
    ELSE IF value.shape = "tuple"
         THEN (IF value.nbytes # -1 THEN value.nbytes ELSE value.sizeof)
         ELSE value.sizeof

RECURSIVE SumSizes(_)
SumSizes(c) == IF c = <<>> THEN 0 ELSE get_size(Head(c).value) + SumSizes(Tail(c))

(* ------------------------------------------------------------------ *)
(* put                                                                *)
(* ------------------------------------------------------------------ *)

remove_existing_keep_memory(c, m, key) ==
    IF contains(c, key) THEN [cache |-> Delete(c, key), memory |-> m]
    ELSE [cache |-> c, memory |-> m]

\* if key in self.cache: subtract the old size, delete the entry
remove_existing(c, m, key) ==
    IF contains(c, key)
    THEN [cache |-> Delete(c, key), memory |-> m - get_size(ValueOf(c, key))]
    ELSE [cache |-> c, memory |-> m]

must_evict_eager(c, m, value_size, maxi, maxb) ==
    (Len(c) + 1 >= maxi \/ m + value_size > maxb) /\ c # <<>>

must_evict_both(c, m, value_size, maxi, maxb) ==
    (Len(c) >= maxi /\ m + value_size > maxb) /\ c # <<>>

must_evict_ignoring_incoming(c, m, value_size, maxi, maxb) ==
    (Len(c) >= maxi \/ m > maxb) /\ c # <<>>

\* the while condition of the eviction loop
must_evict(c, m, value_size, maxi, maxb) ==
    (Len(c) >= maxi \/ m + value_size > maxb) /\ c # <<>>

evict_one_keep_memory(c, m) ==
    [cache |-> popitem(c).rest, memory |-> m, key |-> popitem(c).item.key]

evict_one_keep_entry(c, m) ==
    [cache |-> c, memory |-> m - get_size(Head(c).value), key |-> Head(c).key]

\* the body of the eviction loop
evict_one(c, m) ==
    [cache |-> popitem(c).rest,
     memory |-> m - get_size(popitem(c).item.value),
     key |-> popitem(c).item.key]

RECURSIVE evict_loop(_, _, _, _, _, _)
evict_loop(c, m, value_size, maxi, maxb, evicted) ==
    IF must_evict(c, m, value_size, maxi, maxb)
    THEN LET e == evict_one(c, m)
         IN evict_loop(e.cache, e.memory, value_size, maxi, maxb, Append(evicted, e.key))
    ELSE [cache |-> c, memory |-> m, evicted |-> evicted]

\* put for a value whose size can be estimated
put(c, m, key, value, maxi, maxb) ==
    LET value_size == get_size(value)
        r == remove_existing(c, m, key)
        l == evict_loop(r.cache, r.memory, value_size, maxi, maxb, <<>>)
    IN [cache |-> Append(l.cache, [key |-> key, value |-> value]),
        memory |-> l.memory + value_size,
        evicted |-> l.evicted]

(* ------------------------------------------------------------------ *)
(* get, stats                                                         *)
(* ------------------------------------------------------------------ *)

get_without_touch(c, key) ==
    IF contains(c, key)
    THEN [cache |-> c, value |-> ValueOf(c, key)]
    ELSE [cache |-> c, value |-> None]

get(c, key) ==
    IF contains(c, key)
    THEN [cache |-> move_to_end(c, key), value |-> ValueOf(c, key)]
    ELSE [cache |-> c, value |-> None]

\* round(x / (1024 * 1024), 2), in hundredths of a megabyte: the nearest
\* hundredth, ties to the even one
round_mb(x) ==
    LET unit == 1024 * 1024
        frac == (x % unit) * 100
        q == (x \div unit) * 100 + frac \div unit
        r2 == 2 * (frac % unit)
    IN IF r2 > unit \/ (r2 = unit /\ q % 2 = 1) THEN q + 1 ELSE q

stats(c, m, maxi, maxb) ==
    [items |-> Len(c), max_items |-> maxi,
     memory_mb |-> round_mb(m), max_memory_mb |-> round_mb(maxb)]

NoStats == [items |-> 0, max_items |-> 0, memory_mb |-> 0, max_memory_mb |-> 0]

(* ------------------------------------------------------------------ *)
(* Observers: they record calls and never influence the cache         *)
(* ------------------------------------------------------------------ *)

\* What the last call was, whether its key was in the cache when it began
\* and what it gave back.
Ret(op, key, val, present, raised, value, found, st, evicted) ==
    [op |-> op, key |-> key, val |-> val, present |-> present, raised |-> raised,
     value |-> value, found |-> found, stats |-> st, evicted |-> evicted]

\* Keys by their most recent use, oldest first: a use is a get that finds
\* the key or a put that completes.
Touch(s, key) == SelectSeq(s, LAMBDA x : x # key) \o <<key>>

Pos(s, key) == CHOOSE i \in 1..Len(s) : s[i] = key

Oldest(live, s) == CHOOSE k \in live : \A j \in live : Pos(s, k) <= Pos(s, j)

RECURSIVE SumOver(_, _)
SumOver(size, S) ==
    IF S = {} THEN 0
    ELSE LET k == CHOOSE x \in S : TRUE IN size[k] + SumOver(size, S \ {k})

\* Reference LRU cache (section 4.3 of the specification): the set of live
\* keys and their sizes, the victim being the live key used longest ago.
RECURSIVE RefEvict(_, _, _, _, _, _)
RefEvict(live, size, s, sz, maxi, maxb) ==
    IF live # {} /\ (Cardinality(live) >= maxi \/ SumOver(size, live) + sz > maxb)
    THEN RefEvict(live \ {Oldest(live, s)}, size, s, sz, maxi, maxb)
    ELSE live

RefPut(r, s, key, sz, maxi, maxb) ==
    [live |-> RefEvict(r.live \ {key}, r.size, s, sz, maxi, maxb) \cup {key},
     size |-> [r.size EXCEPT ![key] = sz]]

\* The calls so far, while there are at most MaxHist of them and each is a
\* get or a put of a 100-byte value (the calls of the examples).
Call(op, key, val) == [op |-> op, key |-> key, val |-> val]

Track(h, call) ==
    IF h.on /\ Len(h.calls) < MaxHist /\ (call.op = "get" \/ (call.op = "put" /\ call.val = B100))
    THEN [on |-> TRUE, calls |-> Append(h.calls, call)]
    ELSE [on |-> FALSE, calls |-> <<>>]

\* A put in progress: where it is (idle: none in progress; evict: at the
\* test of the eviction loop), its arguments, the size of the value, the
\* number of entries when the loop was entered and the keys evicted so far.
Loop(pc, key, value, value_size, start, evicted, done) ==
    [pc |-> pc, key |-> key, value |-> value, value_size |-> value_size,
     start |-> start, evicted |-> evicted, done |-> done]

NoLoop == Loop("idle", "a", None, 0, 0, <<>>, FALSE)

Callers == {1, 2}

\* A play_audio call: where it is, its arguments and its local variables.
Request(pc, text, speed, cache_key, samples, hit) ==
    [pc |-> pc, text |-> text, speed |-> speed, cache_key |-> cache_key,
     samples |-> samples, hit |-> hit]

NoRequest == Request("idle", "", "", "", None, FALSE)

(* ------------------------------------------------------------------ *)
(* The state machine                                                  *)
(* ------------------------------------------------------------------ *)

\* LimitedCache.__init__
Init ==
    /\ max_items \in ItemLimits
    /\ max_memory_bytes \in ByteLimits
    /\ cache = <<>>
    /\ current_memory = 0
    /\ ret = Ret("init", "a", None, FALSE, FALSE, None, FALSE, NoStats, <<>>)
    /\ recency = <<>>
    /\ ref = [live |-> {}, size |-> [k \in Keys |-> 0]]
    /\ hist = [on |-> TRUE, calls |-> <<>>]
    /\ loop = NoLoop
    /\ callers = [p \in Callers |-> NoRequest]

\* cache.put(key, value)
Put(key, value) ==
    /\ hist' = Track(hist, Call("put", key, value))
    /\ UNCHANGED <<max_items, max_memory_bytes>>
    /\ UNCHANGED stepwise
    /\ IF unpack_raises(value)
       THEN /\ ret' = Ret("put", key, value, contains(cache, key), TRUE, None, FALSE, NoStats, <<>>)
            /\ UNCHANGED <<cache, current_memory, recency, ref>>
       ELSE LET p == put(cache, current_memory, key, value, max_items, max_memory_bytes)
            IN /\ cache' = p.cache
               /\ current_memory' = p.memory
               /\ ret' = Ret("put", key, value, contains(cache, key), FALSE, None, FALSE, NoStats, p.evicted)
               /\ recency' = Touch(recency, key)
               /\ ref' = RefPut(ref, recency, key, get_size(value), max_items, max_memory_bytes)

\* cache.get(key)
Get(key) ==
    LET g == get(cache, key)
    IN /\ cache' = g.cache
       /\ ret' = Ret("get", key, None, contains(cache, key), FALSE, g.value, FALSE, NoStats, <<>>)
       /\ recency' = IF key \in ref.live THEN Touch(recency, key) ELSE recency
       /\ hist' = Track(hist, Call("get", key, None))
       /\ UNCHANGED <<max_items, max_memory_bytes, current_memory, ref>>
       /\ UNCHANGED stepwise

\* key in cache
Contains(key) ==
    /\ ret' = Ret("contains", key, None, contains(cache, key), FALSE, None, contains(cache, key), NoStats, <<>>)
    /\ hist' = Track(hist, Call("contains", key, None))
    /\ UNCHANGED <<max_items, max_memory_bytes, cache, current_memory, recency, ref>>
    /\ UNCHANGED stepwise

\* cache.stats()
Stats ==
    /\ ret' = Ret("stats", "a", None, FALSE, FALSE, None, FALSE,
                  stats(cache, current_memory, max_items, max_memory_bytes), <<>>)
    /\ hist' = Track(hist, Call("stats", "a", None))
    /\ UNCHANGED <<max_items, max_memory_bytes, cache, current_memory, recency, ref>>
    /\ UNCHANGED stepwise

Next ==
    \/ \E key \in Keys, value \in Values : Put(key, value)
    \/ \E key \in Keys : Get(key)
    \/ \E key \in Keys : Contains(key)
    \/ Stats

Spec == Init /\ [][Next]_vars

(* ------------------------------------------------------------------ *)
(* put, statement by statement                                        *)
(* ------------------------------------------------------------------ *)

\* put up to the eviction loop: the size of the value, then the removal of
\* the key's old entry.  A ValueError of _get_size ends the call at once.
PutStart(key, value) ==
    /\ loop.pc = "idle"
    /\ IF unpack_raises(value)
       THEN /\ loop' = Loop("idle", key, value, 0, Len(cache), <<>>, FALSE)
            /\ UNCHANGED <<cache, current_memory>>
       ELSE LET r == remove_existing(cache, current_memory, key)
            IN /\ cache' = r.cache
               /\ current_memory' = r.memory
               /\ loop' = Loop("evict", key, value, get_size(value), Len(r.cache), <<>>, FALSE)
    /\ UNCHANGED <<max_items, max_memory_bytes, callers>>
    /\ UNCHANGED observers

\* the loop condition holds: one pass of the body
EvictStep ==
    /\ loop.pc = "evict"
    /\ must_evict(cache, current_memory, loop.value_size, max_items, max_memory_bytes)
    /\ LET e == evict_one(cache, current_memory)
       IN /\ cache' = e.cache
          /\ current_memory' = e.memory
          /\ loop' = [loop EXCEPT !.evicted = Append(@, e.key)]
    /\ UNCHANGED <<max_items, max_memory_bytes, callers>>
    /\ UNCHANGED observers

\* the loop condition fails: the new entry is added and put returns
PutInsert ==
    /\ loop.pc = "evict"
    /\ ~must_evict(cache, current_memory, loop.value_size, max_items, max_memory_bytes)
    /\ cache' = Append(cache, [key |-> loop.key, value |-> loop.value])
    /\ current_memory' = current_memory + loop.value_size
    /\ loop' = [loop EXCEPT !.pc = "idle", !.done = TRUE]
    /\ UNCHANGED <<max_items, max_memory_bytes, callers>>
    /\ UNCHANGED observers

LoopNext ==
    \/ \E key \in Keys, value \in Values : PutStart(key, value)
    \/ EvictStep
    \/ PutInsert

\* A call that has started keeps running: the interpreter executes the
\* next statement of put.
LoopSpec == Init /\ [][LoopNext]_vars /\ WF_vars(EvictStep) /\ WF_vars(PutInsert)

(* ------------------------------------------------------------------ *)
(* play_audio on _samples_cache                                       *)
(* ------------------------------------------------------------------ *)

\* _samples_cache = LimitedCache(max_items=50, max_memory_mb=50)
SamplesCacheMaxItems == 50

SamplesCacheMaxMemoryMb == 50

Texts == {"hello", "world"}

\* float(args.get("speed", 1.1))
Speeds == {"1.1", "2.0"}

\* hashlib.md5(text.encode()).hexdigest()
md5(text) ==
    IF text = "hello" THEN "5d41402abc4b2a76b9719d911017c592"
    ELSE "7d793037a0760186574b0282f2f435e7"

\* kokoro.create(text, voice, speed=speed): the (samples, sample_rate) pair
\* synthesized from this text at this speed
kokoro_create(text, speed) ==
    [shape |-> "tuple", len |-> 2, nbytes |-> 96000, sizeof |-> 96112,
     text |-> text, speed |-> speed]

cache_hit_inverted(cached_samples) == cached_samples = None

\* if cached_samples is not None
cache_hit(cached_samples) == cached_samples # None

AudioInit ==
    /\ max_items = SamplesCacheMaxItems
    /\ max_memory_bytes = SamplesCacheMaxMemoryMb * 1024 * 1024
    /\ cache = <<>>
    /\ current_memory = 0
    /\ ret = Ret("init", "a", None, FALSE, FALSE, None, FALSE, NoStats, <<>>)
    /\ recency = <<>>
    /\ ref = [live |-> {}, size |-> [k \in Keys |-> 0]]
    /\ hist = [on |-> TRUE, calls |-> <<>>]
    /\ loop = NoLoop
    /\ callers = [p \in Callers |-> NoRequest]

\* text_to_speech calls play_audio(text, speed), which derives the key
PlayAudio(p, text, speed) ==
    /\ callers[p].pc = "idle"
    /\ callers' = [callers EXCEPT ![p] = Request("get", text, speed, md5(text), None, FALSE)]
    /\ UNCHANGED <<max_items, max_memory_bytes, cache, current_memory, loop>>
    /\ UNCHANGED observers

\* cached_samples = _samples_cache.get(cache_key) and the test of the result
CacheGet(p) ==
    /\ callers[p].pc = "get"
    /\ LET g == get(cache, callers[p].cache_key)
       IN /\ cache' = g.cache
          /\ callers' = [callers EXCEPT ![p] =
                IF cache_hit(g.value)
                THEN [@ EXCEPT !.pc = "play", !.samples = g.value, !.hit = TRUE]
                ELSE [@ EXCEPT !.pc = "create"]]
    /\ UNCHANGED <<max_items, max_memory_bytes, current_memory, loop>>
    /\ UNCHANGED observers

\* samples, sample_rate = kokoro.create(text, voice, speed=speed)
Create(p) ==
    /\ callers[p].pc = "create"
    /\ callers' = [callers EXCEPT ![p] =
          [@ EXCEPT !.pc = "put", !.samples = kokoro_create(callers[p].text, callers[p].speed)]]
    /\ UNCHANGED <<max_items, max_memory_bytes, cache, current_memory, loop>>
    /\ UNCHANGED observers

\* _samples_cache.put(cache_key, (samples, sample_rate)), then the print of
\* stats(), which reads only
CachePut(p) ==
    /\ callers[p].pc = "put"
    /\ ~unpack_raises(callers[p].samples)
    /\ LET r == put(cache, current_memory, callers[p].cache_key, callers[p].samples,
                    max_items, max_memory_bytes)
       IN /\ cache' = r.cache
          /\ current_memory' = r.memory
    /\ callers' = [callers EXCEPT ![p] = [@ EXCEPT !.pc = "play"]]
    /\ UNCHANGED <<max_items, max_memory_bytes, loop>>
    /\ UNCHANGED observers

\* sd.play(samples, sample_rate, blocking=True, ...) and the return
Play(p) ==
    /\ callers[p].pc = "play"
    /\ callers' = [callers EXCEPT ![p] = NoRequest]
    /\ UNCHANGED <<max_items, max_memory_bytes, cache, current_memory, loop>>
    /\ UNCHANGED observers

AudioNext ==
    \/ \E p \in Callers, text \in Texts, speed \in Speeds : PlayAudio(p, text, speed)
    \/ \E p \in Callers : CacheGet(p)
    \/ \E p \in Callers : Create(p)
    \/ \E p \in Callers : CachePut(p)
    \/ \E p \in Callers : Play(p)

AudioSpec == AudioInit /\ [][AudioNext]_vars

\* text_to_speech is a coroutine that calls play_audio without awaiting
\* anything: the server's event loop runs one request to its end before it
\* starts the next.
TextToSpeech(p, text, speed) ==
    /\ \A q \in Callers : callers[q].pc = "idle"
    /\ PlayAudio(p, text, speed)

SerialAudioNext ==
    \/ \E p \in Callers, text \in Texts, speed \in Speeds : TextToSpeech(p, text, speed)
    \/ \E p \in Callers : CacheGet(p)
    \/ \E p \in Callers : Create(p)
    \/ \E p \in Callers : CachePut(p)
    \/ \E p \in Callers : Play(p)

SerialAudioSpec == AudioInit /\ [][SerialAudioNext]_vars

(* ------------------------------------------------------------------ *)
(* Properties                                                         *)
(* ------------------------------------------------------------------ *)

PutCall(r) == r.op = "put" /\ ~r.raised

OrderOf(c) == [i \in 1..Len(c) |-> c[i].key]

Last(s) == s[Len(s)]

\* C1: after every call the number of stored entries is at most max_items,
\* for every max_items >= 0.
C1_AtMostMaxItems == Len(cache) <= max_items

\* C2: after every call current_memory is exactly the sum of the estimated
\* sizes of the stored values.
C2_MemoryIsSumOfSizes == current_memory = SumSizes(cache)

C2_Witness ==
    /\ PutCall(ret) /\ Len(ret.evicted) >= 2
    /\ Len(cache) >= 1 /\ current_memory > 0

\* C3: every key the eviction loop of put removes is, among the keys present
\* at that moment, the one whose last successful get or put is oldest; and
\* with max_items = 2 (and a byte limit the values fit in), put(a), put(b),
\* get(a), put(c) evicts b and keeps a and c.
LruScenario ==
    <<Call("put", "a", B100), Call("put", "b", B100),
      Call("get", "a", None), Call("put", "c", B100)>>

C3_EvictsLeastRecentlyUsed ==
    [][/\ PutCall(ret') =>
            LET before == KeysOf(cache) \ {ret'.key}
                ev == ret'.evicted
            IN \A i \in 1..Len(ev) :
                 LET present == before \ {ev[j] : j \in 1..(i - 1)}
                 IN /\ ev[i] \in present
                    /\ \A k \in present : Pos(recency, ev[i]) <= Pos(recency, k)
       /\ (hist'.on /\ hist'.calls = LruScenario /\ max_items = 2
              /\ max_memory_bytes >= 200) =>
            (ret'.evicted = <<"b">> /\ KeysOf(cache') = {"a", "c"})
      ]_vars

C3_Witness ==
    /\ hist.on /\ hist.calls = LruScenario /\ max_items = 2
    /\ ret.evicted = <<"b">> /\ OrderOf(cache) = <<"a", "c">>

\* C4: put(k, v2) on a present key k leaves exactly one entry for k, holding
\* v2, at the most recently used end, and current_memory counts v2's size
\* for k and nothing of the old value.
C4_UpdateReplaces ==
    (PutCall(ret) /\ ret.present) =>
        /\ Cardinality({i \in 1..Len(cache) : cache[i].key = ret.key}) = 1
        /\ Last(cache) = [key |-> ret.key, value |-> ret.val]
        /\ current_memory = SumSizes(Delete(cache, ret.key)) + get_size(ret.val)

C4_Witness ==
    /\ PutCall(ret) /\ ret.present /\ Len(cache) >= 2
    /\ ret.evicted = <<>> /\ ret.val = B200

\* C5: after a put of a value no larger than max_memory_bytes, current_memory
\* is at most max_memory_bytes; with max_items = 100 and 250 bytes, put(a),
\* put(b), put(c) of 100 bytes each ends with b and c stored and 200 bytes.
ByteScenario ==
    <<Call("put", "a", B100), Call("put", "b", B100), Call("put", "c", B100)>>

C5_FittingPutKeepsByteLimit ==
    /\ (PutCall(ret) /\ get_size(ret.val) <= max_memory_bytes) =>
           current_memory <= max_memory_bytes
    /\ (hist.on /\ hist.calls = ByteScenario /\ max_items = 100
           /\ max_memory_bytes = 250) =>
           (OrderOf(cache) = <<"b", "c">> /\ current_memory = 200)

C5_Witness ==
    /\ hist.on /\ hist.calls = ByteScenario /\ max_items = 100
    /\ max_memory_bytes = 250 /\ ret.evicted = <<"a">>

\* C6: a put of a value larger than max_memory_bytes (max_items >= 1) evicts
\* every other entry and stores the value: the cache then holds exactly that
\* key and current_memory is the value's size, above the limit; and no call
\* other than put changes current_memory, so the limit stays exceeded until
\* the next put.
C6_OversizedIsAdmittedAlone ==
    [][/\ (PutCall(ret') /\ get_size(ret'.val) > max_memory_bytes /\ max_items >= 1) =>
            /\ OrderOf(cache') = <<ret'.key>>
            /\ Len(ret'.evicted) = Cardinality(KeysOf(cache) \ {ret'.key})
            /\ current_memory' = get_size(ret'.val)
            /\ current_memory' > max_memory_bytes
       /\ (ret'.op # "put" /\ current_memory > max_memory_bytes) =>
            current_memory' = current_memory
      ]_vars

C6_Witness ==
    /\ PutCall(ret) /\ get_size(ret.val) > max_memory_bytes /\ max_items >= 2
    /\ Len(ret.evicted) >= 2 /\ current_memory > max_memory_bytes

\* C7: put never fails, whatever the shape of the value: it completes with
\* the value stored under the key.
C7_PutNeverFails ==
    ret.op = "put" =>
        /\ ~ret.raised
        /\ contains(cache, ret.key)
        /\ ValueOf(cache, ret.key) = ret.val

\* C8: get(k) reports a hit, with the stored value, exactly when k is
\* present (also when the stored value is None) and a miss exactly when k is
\* absent; a get that misses changes nothing.  The caller reads a result
\* other than None as a hit.
C8_GetReportsPresence ==
    [][ret'.op = "get" =>
          LET present == contains(cache, ret'.key)
          IN /\ (ret'.value # None) <=> present
             /\ present => ret'.value = ValueOf(cache, ret'.key)
             /\ ~present => UNCHANGED <<cache, current_memory>>
      ]_vars

\* C9: a get of a present key k returns the stored value and changes neither
\* current_memory nor the entries; it only makes k the most recently used,
\* the other keys keeping their order; a second get(k) right after returns
\* the same value.
C9_GetHitOnlyTouches ==
    [][(ret'.op = "get" /\ contains(cache, ret'.key)) =>
          LET k == ret'.key
          IN /\ ret'.value = ValueOf(cache, k)
             /\ current_memory' = current_memory
             /\ Len(cache') = Len(cache)
             /\ {cache'[i] : i \in 1..Len(cache')} = {cache[i] : i \in 1..Len(cache)}
             /\ Last(cache').key = k
             /\ Delete(cache', k) = Delete(cache, k)
             /\ (ret.op = "get" /\ ret.key = k) => ret'.value = ret.value
      ]_vars

C9_Witness ==
    /\ hist.on
    /\ hist.calls = <<Call("put", "a", B100), Call("put", "b", B100),
                      Call("get", "a", None), Call("get", "a", None)>>
    /\ ret.op = "get" /\ ret.present /\ ret.value = B100
    /\ OrderOf(cache) = <<"b", "a">>

\* C10: contains(k) is true exactly when k was put and has not been evicted
\* since its last put, as a reference LRU cache run side by side tells; and
\* contains changes neither the entries, nor their order, nor current_memory.
C10_ContainsAgreesWithReference ==
    [][/\ \A k \in Keys : contains(cache', k) <=> k \in ref'.live
       /\ ret'.op = "contains" =>
            /\ ret'.found = (ret'.key \in ref.live)
            /\ UNCHANGED <<cache, current_memory>>
      ]_vars

C10_Witness ==
    /\ ret.op = "contains" /\ ~ret.found
    /\ \E i \in 1..Len(recency) : recency[i] = ret.key
    /\ Len(cache) >= 1

\* C11: the eviction loop of put terminates in every configuration and
\* state: it evicts at most as many entries as there were, each pass removes
\* one, it stops on the empty cache even when a limit condition still holds
\* (max_items = 0, a value above max_memory_bytes), and every put that has
\* entered the loop completes.
C11_EvictionLoopTerminates ==
    /\ [](loop.pc = "evict" =>
            /\ Len(loop.evicted) + Len(cache) = loop.start
            /\ cache = <<>> =>
                  ~must_evict(cache, current_memory, loop.value_size,
                              max_items, max_memory_bytes))
    /\ (loop.pc = "evict") ~> (loop.pc = "idle" /\ loop.done)

C11_Witness ==
    /\ loop.pc = "idle" /\ loop.done /\ max_items = 0
    /\ loop.value_size > max_memory_bytes
    /\ Len(loop.evicted) = 1 /\ loop.start = 1

\* C12: the cache gives no single-flight guarantee.  A get that finds its
\* key absent sends its caller to the synthesis whatever the other callers
\* are doing, and a synthesis in progress leaves no trace in the cache; so
\* two interleaved callers can both miss and both synthesize the same key
\* (the witness).
C12_NoSingleFlight ==
    [][\A p \in Callers :
          /\ (callers[p].pc = "get" /\ callers'[p].pc # "get"
                 /\ ~contains(cache, callers[p].cache_key)) =>
                callers'[p].pc = "create"
          /\ (callers[p].pc = "create" /\ callers'[p].pc = "put") =>
                UNCHANGED <<cache, current_memory>>
      ]_vars

C12_Witness ==
    /\ callers[1].pc = "create" /\ callers[2].pc = "create"
    /\ callers[1].cache_key = callers[2].cache_key
    /\ ~contains(cache, callers[1].cache_key)

\* C14: whenever play_audio plays samples that came from the cache, they
\* were synthesized from the text and at the speed of the current request.
C14_HitMatchesRequest ==
    \A p \in Callers :
        (callers[p].pc = "play" /\ callers[p].hit) =>
            /\ callers[p].samples.text = callers[p].text
            /\ callers[p].samples.speed = callers[p].speed

\* C13: an entry leaves the cache only in a put, and only when a limit asks
\* for it: just before each eviction (the old entry of the key being put
\* already removed) the entry count is >= max_items or current_memory plus
\* the incoming size is > max_memory_bytes.  So a put that fits both limits
\* evicts nothing, also when it updates a key of a cache holding max_items
\* entries; get, contains, stats and a put that raises remove nothing.
C13_EvictsOnlyWhenRequired ==
    [][/\ PutCall(ret') =>
            LET k == ret'.key
                incoming == get_size(ret'.val)
                rest == Delete(cache, k)
                memory == IF contains(cache, k)
                          THEN current_memory - get_size(ValueOf(cache, k))
                          ELSE current_memory
                ev == ret'.evicted
            IN /\ KeysOf(cache') = (KeysOf(rest) \ {ev[i] : i \in 1..Len(ev)}) \cup {k}
               /\ \A i \in 1..Len(ev) :
                    /\ i <= Len(rest) /\ ev[i] = rest[i].key
                    /\ \/ Len(rest) - (i - 1) >= max_items
                       \/ memory - SumSizes(SubSeq(rest, 1, i - 1)) + incoming
                             > max_memory_bytes
               /\ (Len(rest) < max_items /\ memory + incoming <= max_memory_bytes) =>
                    (ev = <<>> /\ cache' = Append(rest, [key |-> k, value |-> ret'.val]))
       /\ ~PutCall(ret') => KeysOf(cache') = KeysOf(cache)
      ]_vars

C13_Witness ==
    /\ PutCall(ret) /\ ret.present /\ ret.evicted = <<>>
    /\ max_items = 2 /\ Len(cache) = max_items

====
